---- MODULE Spec2Model ----
(***************************************************************************)
(* A model of the leveled logger of src/log.go: a Logger (sink, scratch    *)
(* buffer, threshold, labels, flags) behind a mutex, the formatting        *)
(* helpers itoa/date/header, Output and the leveled wrappers.              *)
(*                                                                         *)
(* Byte strings are sequences of one-character strings, so that appends,   *)
(* scans and slices are computed as the code computes them.                *)
(***************************************************************************)
EXTENDS Integers, Sequences, FiniteSets, TLC

VARIABLES
    min,      \* Logger.min: the threshold
    flag,     \* Logger.flag: the option bits
    pre,      \* Logger.pre: the five label strings
    buf,      \* Logger.buf: the scratch buffer
    mu,       \* Logger.Mutex: 0 when free, else the goroutine that locked it
    out,      \* Logger.out: the sink, as the sequence of Write calls it received,
              \* each with the call that made it
    pc,       \* per goroutine: its position in the current call
    call,     \* per goroutine: the current (or last) call: entry point and arguments
    loc,      \* per goroutine: file, line and ok of Output's locals
    ret,      \* per goroutine: what the last finished call returned to its caller
    hist,     \* per goroutine: what the current (or last) call has done so far:
              \* its locks, unlocks, caller lookups and writes, the place of its
              \* last write in the sink and what the sink returned
    clock,    \* the wall clock, in seconds after the base time
    tz,       \* the local zone's offset from UTC, in seconds
    ncalls,   \* number of calls started so far
    ndue,     \* number of those whose severity was not below the threshold
    tried,    \* per goroutine: what its last Logger.TryLock returned
    fatal,    \* the runtime ended the program: "sync: unlock of unlocked mutex"
    stmt,     \* per goroutine: how many statements of lines 157-160 it has run,
              \* when it runs them one by one beside another goroutine
    runner,   \* the goroutine that ran the last such statement (0: none)
    preempts, \* how often a goroutine in the middle of them was overtaken
    torn,     \* two goroutines were inside one statement on log.buf at once: what
              \* log.buf holds from there on is not followed
    arg,      \* input of the formatting helper under test
    res       \* its result

vars == <<min, flag, pre, buf, mu, out, pc, call, loc, ret, hist, clock, tz, ncalls, ndue,
          tried, fatal, stmt, runner, preempts, torn, arg, res>>

logger == <<min, flag, pre, buf, mu, out>>
locals == <<pc, call, loc, ret, hist>>
race == <<stmt, runner, preempts, torn>>
world == <<clock, tz, ncalls, ndue, tried, race>>
env == <<world, fatal>>
harness == <<arg, res>>

\* the program is running and log.buf is what its statements made it
Running == ~fatal /\ ~torn

----------------------------------------------------------------------------
(* Bounds of the model *)

\* goroutines sharing the Logger
NumThreads == 2
\* length of the paths the short form is computed for
MaxPathLen == 4
\* largest zone offset, in seconds, of the dense range the designator is computed for
MaxOffset == 3700
\* calls started in one behaviour, over all goroutines
MaxCalls == 2
\* seconds the clock may advance
MaxClock == 1
MaxArgs == 3
MaxLine == 1100
\* times a goroutine between lines 157 and 160 is overtaken by another one there
MaxPreempt == 1

Threads == 1..NumThreads

----------------------------------------------------------------------------
(* Constants of the program *)

LevelDebug == 0
LevelInfo == 1
LevelWarn == 2
LevelError == 3

FlagLongPath == 1
FlagShortPath == 2

\* LevelStrings is [5]string: the composite literal sets four, the fifth is "".
DefaultLevelStrings ==
    << <<"D","E","B","U","G">>,
       <<"I","N","F","O"," ">>,
       <<"W","A","R","N"," ">>,
       <<"E","R","R","O","R">>,
       << >> >>

----------------------------------------------------------------------------
(* Go arithmetic *)

\* Go's integer division truncates toward zero.
Quot(a, b) == IF a >= 0 THEN a \div b ELSE -((-a) \div b)

\* Go's remainder has the sign of the dividend.
Rem(a, b) == a - Quot(a, b) * b

\* i & m for the two option bits (flags are 0..3 in the model).
BitAnd(i, m) ==
    LET b1(x) == x % 2
        b2(x) == (x \div 2) % 2
    IN  (b1(i) * b1(m)) + 2 * (b2(i) * b2(m))

\* byte('0' + d) for d in -9..9: the bytes 0x27..0x39.
ByteFromZero(d) ==
    << "'", "(", ")", "*", "+", ",", "-", ".", "/",
       "0", "1", "2", "3", "4", "5", "6", "7", "8", "9" >>[d + 10]

----------------------------------------------------------------------------
(* itoa, date, header *)

RECURSIVE ItoaLoopMutPads(_, _, _)
\* the loop of itoa padding to one digit more (wid > 0 for wid > 1)
ItoaLoopMutPads(i, wid, b) ==
    IF i >= 10 \/ wid > 0
    THEN LET q == Quot(i, 10)
         IN  ItoaLoopMutPads(q, wid - 1, <<ByteFromZero(i - q * 10)>> \o b)
    ELSE <<ByteFromZero(i)>> \o b

RECURSIVE ItoaLoop(_, _, _)
\* the loop of itoa: digits are produced from the right into b[bp:]
ItoaLoop(i, wid, b) ==
    IF i >= 10 \/ wid > 1
    THEN LET q == Quot(i, 10)
         IN  ItoaLoop(q, wid - 1, <<ByteFromZero(i - q * 10)>> \o b)
    ELSE <<ByteFromZero(i)>> \o b

\* itoa(&buf, i, wid): buf with the decimal of i appended, zero-padded to wid.
itoa(b, i, wid) == b \o ItoaLoop(i, wid, << >>)

\* lines 94-110 of date: the zone designator for an offset of off seconds
zoneDesignator(b, off) ==
    IF off = 0
    THEN b \o <<"Z">>
    ELSE LET zone0 == Quot(off, 60)
             sign == IF zone0 < 0 THEN "-" ELSE "+"
             zone1 == IF zone0 < 0 THEN -zone0 ELSE zone0
         IN  itoa(itoa(b \o <<sign>>, Quot(zone1, 60), 2) \o <<":">>, Rem(zone1, 60), 2)

\* Logger.date(now): buf with the timestamp of now appended.
date(b, now) ==
    LET b1 == itoa(b, now.year, 4) \o <<"-">>
        b2 == itoa(b1, now.month, 2) \o <<"-">>
        b3 == itoa(b2, now.day, 2) \o <<"T">>
        b4 == itoa(b3, now.hour, 2) \o <<":">>
        b5 == itoa(b4, now.minute, 2) \o <<":">>
        b6 == itoa(b5, now.second, 2)
    IN  zoneDesignator(b6, now.off)

RECURSIVE ShortScan(_, _)
\* the loop of header: i runs from len(file)-1 down to 1
ShortScan(file, i) ==
    IF i > 0
    THEN IF file[i + 1] = "/"
         THEN SubSeq(file, i + 2, Len(file))
         ELSE ShortScan(file, i - 1)
    ELSE file

\* the short form of a path as header computes it
short(file) == ShortScan(file, Len(file) - 1)

----------------------------------------------------------------------------
(* fmt.Sprint and fmt.Sprintf, for string and int operands *)

StrVal(s) == [k |-> "string", s |-> s, i |-> 0]
IntVal(i) == [k |-> "int", s |-> << >>, i |-> i]

RECURSIVE Digits(_)
Digits(n) == IF n >= 10 THEN Digits(n \div 10) \o <<ByteFromZero(n % 10)>>
             ELSE <<ByteFromZero(n)>>

\* the default (%v) text of an operand
FmtValue(x) ==
    IF x.k = "string" THEN x.s
    ELSE IF x.i < 0 THEN <<"-">> \o Digits(-x.i) ELSE Digits(x.i)

TypeName(x) == IF x.k = "string" THEN <<"s","t","r","i","n","g">> ELSE <<"i","n","t">>

RECURSIVE SprintFromMutSpaces(_, _)
\* Sprint with a space between every two operands, as Sprintln puts them
SprintFromMutSpaces(v, n) ==
    IF n > Len(v) THEN << >>
    ELSE (IF n > 1 THEN <<" ">> ELSE << >>) \o FmtValue(v[n]) \o SprintFromMutSpaces(v, n + 1)

RECURSIVE SprintFrom(_, _)
\* fmt.Sprint: a space goes between two operands when neither is a string
SprintFrom(v, n) ==
    IF n > Len(v) THEN << >>
    ELSE LET sep == IF n > 1 /\ v[n].k # "string" /\ v[n - 1].k # "string"
                    THEN <<" ">> ELSE << >>
         IN  sep \o FmtValue(v[n]) \o SprintFrom(v, n + 1)

Sprint(v) == SprintFrom(v, 1)

\* the bytes a string of the model can hold, by code: 32..126 but for the
\* backquote (96), and \t \n \f \r
Codes == (32..95) \cup (97..126) \cup {9, 10, 12, 13}

BytesFromSpace ==
    << " ", "!", "\"", "#", "$", "%", "&", "'", "(", ")", "*", "+", ",", "-", ".", "/",
       "0", "1", "2", "3", "4", "5", "6", "7", "8", "9", ":", ";", "<", "=", ">", "?",
       "@", "A", "B", "C", "D", "E", "F", "G", "H", "I", "J", "K", "L", "M", "N", "O",
       "P", "Q", "R", "S", "T", "U", "V", "W", "X", "Y", "Z", "[", "\\", "]", "^", "_" >>

BytesFromA ==
    << "a", "b", "c", "d", "e", "f", "g", "h", "i", "j", "k", "l", "m", "n", "o",
       "p", "q", "r", "s", "t", "u", "v", "w", "x", "y", "z", "{", "|", "}", "~" >>

\* the byte with code c; a code outside Codes has no value
CharOf(c) ==
    CASE c \in 32..95 -> BytesFromSpace[c - 31]
      [] c \in 97..126 -> BytesFromA[c - 96]
      [] c = 9 -> "\t"
      [] c = 10 -> "\n"
      [] c = 12 -> "\f"
      [] c = 13 -> "\r"

\* the code of byte ch
CodeOf(ch) == CHOOSE c \in Codes : CharOf(c) = ch

ldigits == <<"0","1","2","3","4","5","6","7","8","9","a","b","c","d","e","f">>
udigits == <<"0","1","2","3","4","5","6","7","8","9","A","B","C","D","E","F">>

RECURSIVE DigitsIn(_, _, _)
\* u >= 0 written in the base, most significant digit first
DigitsIn(u, base, digs) ==
    IF u >= base THEN DigitsIn(u \div base, base, digs) \o <<digs[(u % base) + 1]>>
    ELSE <<digs[u + 1]>>

RECURSIVE Rep(_, _)
Rep(c, n) == IF n <= 0 THEN << >> ELSE <<c>> \o Rep(c, n - 1)

\* fmt's flags, width and precision of one directive, as clearflags leaves them
NoFlags ==
    [sharp |-> FALSE, zero |-> FALSE, plus |-> FALSE, minus |-> FALSE, space |-> FALSE,
     sharpV |-> FALSE, plusV |-> FALSE,
     widPresent |-> FALSE, wid |-> 0, precPresent |-> FALSE, prec |-> 0]

\* fmt.pad and fmt.padString: s padded to the width, on the right under '-'.
\* Whether a '0' flag pads a string, a quoted text or a character with zeros is
\* not the same in every release of fmt: that case has no value here.
pad(fl, s) ==
    IF ~fl.widPresent \/ fl.wid <= Len(s) THEN s
    ELSE IF fl.minus THEN s \o Rep(" ", fl.wid - Len(s))
    ELSE CASE ~fl.zero -> Rep(" ", fl.wid - Len(s)) \o s

\* fmt.fmtInteger: x in the base with precision, '#' prefix, sign and padding
fmtInteger(fl, x, base, verb, digs) ==
    LET negative == x < 0
        u == IF negative THEN -x ELSE x
        signed == negative \/ fl.plus \/ fl.space
        prec == IF fl.precPresent THEN fl.prec
                ELSE IF fl.zero /\ ~fl.minus /\ fl.widPresent
                     THEN fl.wid - (IF signed THEN 1 ELSE 0)
                     ELSE 0
        ds == DigitsIn(u, base, digs)
        zs == Rep("0", prec - Len(ds)) \o ds
        pf == IF ~fl.sharp THEN zs
              ELSE IF base = 2 THEN <<"0", "b">> \o zs
              ELSE IF base = 8 THEN (IF zs[1] # "0" THEN <<"0">> \o zs ELSE zs)
              ELSE IF base = 16 THEN <<"0", IF digs = udigits THEN "X" ELSE "x">> \o zs
              ELSE zs
        o == IF verb = "O" THEN <<"0", "o">> \o pf ELSE pf
        sg == IF negative THEN <<"-">> \o o
              ELSE IF fl.plus THEN <<"+">> \o o
              ELSE IF fl.space THEN <<" ">> \o o
              ELSE o
        nz == [fl EXCEPT !.zero = FALSE]
    IN  IF fl.precPresent /\ fl.prec = 0 /\ u = 0 THEN Rep(" ", fl.wid)
        ELSE pad(nz, sg)

\* strconv.Quote's text of one byte inside the quotes q
QuoteByte(c, q) ==
    CASE c = 7 -> <<"\\", "a">>
      [] c = 8 -> <<"\\", "b">>
      [] c = 9 -> <<"\\", "t">>
      [] c = 10 -> <<"\\", "n">>
      [] c = 11 -> <<"\\", "v">>
      [] c = 12 -> <<"\\", "f">>
      [] c = 13 -> <<"\\", "r">>
      [] c = 92 -> <<"\\", "\\">>
      [] c \in Codes /\ c >= 32 /\ c # 92 ->
             IF CharOf(c) = q THEN <<"\\", q>> ELSE <<CharOf(c)>>
      [] c \in (0..6) \cup (14..31) \cup {127} ->
             <<"\\", "x", ldigits[(c \div 16) + 1], ldigits[(c % 16) + 1]>>

RECURSIVE QuoteFrom(_, _)
QuoteFrom(s, n) ==
    IF n > Len(s) THEN << >> ELSE QuoteByte(CodeOf(s[n]), "\"") \o QuoteFrom(s, n + 1)

\* strconv.Quote and strconv.QuoteToASCII, which agree on these bytes
Quote(s) == <<"\"">> \o QuoteFrom(s, 1) \o <<"\"">>

\* strconv.CanBackquote
CanBackquote(s) == \A n \in 1..Len(s) : s[n] \notin {"\n", "\f", "\r"}

\* fmt.fmtC: the character with code x
fmtC(fl, x) == CASE x \in Codes -> pad(fl, <<CharOf(x)>>)

\* fmt.fmtQc: the quoted character with code x
fmtQc(fl, x) == CASE x \in 0..127 -> pad(fl, <<"'">> \o QuoteByte(x, "'") \o <<"'">>)

\* fmt.fmtUnicode: U+0078, with the quoted character after it under '#'
fmtUnicode(fl, x) ==
    CASE x >= 0 ->
        LET prec == IF fl.precPresent /\ fl.prec > 4 THEN fl.prec ELSE 4
            ds == DigitsIn(x, 16, udigits)
            ch == CASE ~fl.sharp \/ x < 32 \/ x \in 127..160 -> << >>
                    [] fl.sharp /\ x \in Codes /\ x >= 32 -> <<" ", "'", CharOf(x), "'">>
        IN  pad([fl EXCEPT !.zero = FALSE],
                <<"U", "+">> \o Rep("0", prec - Len(ds)) \o ds \o ch)

\* fmt.truncateString
truncateString(fl, s) ==
    IF fl.precPresent /\ fl.prec < Len(s) THEN SubSeq(s, 1, fl.prec) ELSE s

\* fmt.fmtS
fmtS(fl, s) == pad(fl, truncateString(fl, s))

\* fmt.fmtQ. Under '#' a text that strconv.CanBackquote accepts is written
\* between backquotes, a byte no string of the model holds: that case has no
\* value here.
fmtQ(fl, s) ==
    LET t == truncateString(fl, s)
    IN  CASE ~(fl.sharp /\ CanBackquote(t)) -> pad(fl, Quote(t))

RECURSIVE HexFrom(_, _, _, _, _)
HexFrom(fl, s, n, length, digs) ==
    IF n > length THEN << >>
    ELSE LET c == CodeOf(s[n])
             x == IF digs = udigits THEN "X" ELSE "x"
         IN  (IF fl.space /\ n > 1
              THEN <<" ">> \o (IF fl.sharp THEN <<"0", x>> ELSE << >>)
              ELSE << >>)
             \o <<digs[(c \div 16) + 1], digs[(c % 16) + 1]>>
             \o HexFrom(fl, s, n + 1, length, digs)

\* fmt.fmtSx (fmtSbx): the bytes of s in hexadecimal
fmtSx(fl, s, digs) ==
    LET length == IF fl.precPresent /\ fl.prec < Len(s) THEN fl.prec ELSE Len(s)
        x == IF digs = udigits THEN "X" ELSE "x"
        body == (IF fl.sharp THEN <<"0", x>> ELSE << >>) \o HexFrom(fl, s, 1, length, digs)
    IN  IF length = 0
        THEN (CASE ~fl.widPresent \/ fl.wid = 0 \/ fl.minus \/ ~fl.zero -> Rep(" ", fl.wid))
        ELSE pad(fl, body)

\* print.go fmtInteger: an int operand under one verb
printInteger(fl, x, verb) ==
    CASE verb \in {"v", "d"} -> fmtInteger(fl, x, 10, verb, ldigits)
      [] verb = "b" -> fmtInteger(fl, x, 2, verb, ldigits)
      [] verb \in {"o", "O"} -> fmtInteger(fl, x, 8, verb, ldigits)
      [] verb = "x" -> fmtInteger(fl, x, 16, verb, ldigits)
      [] verb = "X" -> fmtInteger(fl, x, 16, verb, udigits)
      [] verb = "c" -> fmtC(fl, x)
      [] verb = "q" -> fmtQc(fl, x)
      [] verb = "U" -> fmtUnicode(fl, x)

\* print.go fmtString: a string operand under one verb
printString(fl, s, verb) ==
    CASE verb = "v" -> IF fl.sharpV THEN fmtQ(fl, s) ELSE fmtS(fl, s)
      [] verb = "s" -> fmtS(fl, s)
      [] verb = "x" -> fmtSx(fl, s, ldigits)
      [] verb = "X" -> fmtSx(fl, s, udigits)
      [] verb = "q" -> fmtQ(fl, s)

GoodVerb(x, verb) ==
    IF x.k = "int" THEN verb \in {"v", "d", "b", "o", "O", "x", "X", "c", "q", "U"}
    ELSE verb \in {"v", "s", "x", "X", "q"}

\* the operand under a verb of its type
printValue(fl, x, verb) ==
    IF x.k = "int" THEN printInteger(fl, x.i, verb) ELSE printString(fl, x.s, verb)

\* pp.printArg, with pp.badVerb for a verb the operand's type does not take
printArg(fl, x, verb) ==
    IF verb = "T" THEN fmtS(fl, TypeName(x))
    ELSE IF GoodVerb(x, verb) THEN printValue(fl, x, verb)
    ELSE <<"%", "!", verb, "(">> \o TypeName(x) \o <<"=">>
             \o printValue(fl, x, "v") \o <<")">>

\* one verb applied to one operand, without flags
FmtVerb(verb, x) == printArg(NoFlags, x, verb)

RECURSIVE ExtraFrom(_, _)
ExtraFrom(v, n) ==
    IF n > Len(v) THEN << >>
    ELSE TypeName(v[n]) \o <<"=">> \o printArg(NoFlags, v[n], "v")
             \o (IF n < Len(v) THEN <<",", " ">> ELSE << >>) \o ExtraFrom(v, n + 1)

\* the check doPrintf makes after its loop: operands left over are reported,
\* unless an argument index was used
Extra(v, n, reordered) ==
    IF ~reordered /\ n <= Len(v)
    THEN <<"%","!","(","E","X","T","R","A"," ">> \o ExtraFrom(v, n) \o <<")">>
    ELSE << >>

IsDigit(c) == c \in {"0", "1", "2", "3", "4", "5", "6", "7", "8", "9"}
DigitOf(c) == CHOOSE d \in 0..9 : ldigits[d + 1] = c

\* fmt.tooLarge
tooLarge(x) == x > 1000000 \/ x < -1000000

RECURSIVE ParseNumFrom(_, _, _, _, _)
ParseNumFrom(f, i, end, num, isnum) ==
    IF i < end /\ IsDigit(f[i])
    THEN IF tooLarge(num) THEN [num |-> 0, isnum |-> FALSE, newi |-> end]
         ELSE ParseNumFrom(f, i + 1, end, num * 10 + DigitOf(f[i]), TRUE)
    ELSE [num |-> num, isnum |-> isnum, newi |-> i]

\* fmt.parsenum: the decimal in f[start..end-1]
parsenum(f, start, end) ==
    IF start >= end THEN [num |-> 0, isnum |-> FALSE, newi |-> end]
    ELSE ParseNumFrom(f, start, end, 0, FALSE)

\* fmt.parseArgNumber on f from the '[' at i: the operand number named (from
\* one), the bytes taken and whether the index is well formed
parseArgNumber(f, i) ==
    LET closes == {j \in (i + 1)..Len(f) : f[j] = "]"}
    IN  IF Len(f) - i + 1 < 3 \/ closes = {} THEN [index |-> 0, wid |-> 1, ok |-> FALSE]
        ELSE LET j == CHOOSE c \in closes : \A d \in closes : c <= d
                 pn == parsenum(f, i + 1, j)
             IN  IF ~pn.isnum \/ pn.newi # j
                 THEN [index |-> 0, wid |-> j - i + 1, ok |-> FALSE]
                 ELSE [index |-> pn.num, wid |-> j - i + 1, ok |-> TRUE]

\* pp.argNumber: an explicit index [n] at i picks the next operand
argNumber(n, f, i, numArgs) ==
    IF i > Len(f) \/ f[i] # "["
    THEN [n |-> n, i |-> i, found |-> FALSE, reordered |-> FALSE, bad |-> FALSE]
    ELSE LET pa == parseArgNumber(f, i)
         IN  IF pa.ok /\ 1 <= pa.index /\ pa.index <= numArgs
             THEN [n |-> pa.index, i |-> i + pa.wid, found |-> TRUE,
                   reordered |-> TRUE, bad |-> FALSE]
             ELSE [n |-> n, i |-> i + pa.wid, found |-> pa.ok,
                   reordered |-> TRUE, bad |-> TRUE]

\* fmt.intFromArg: the operand taken as a width or a precision
intFromArg(v, n) ==
    IF n <= Len(v)
    THEN LET isInt == v[n].k = "int" /\ ~tooLarge(v[n].i)
         IN  [num |-> IF isInt THEN v[n].i ELSE 0, isInt |-> isInt, n |-> n + 1]
    ELSE [num |-> 0, isInt |-> FALSE, n |-> n]

RECURSIVE ParseFlags(_, _, _)
\* the flags loop of doPrintf
ParseFlags(f, i, fl) ==
    IF i > Len(f) THEN [i |-> i, fl |-> fl]
    ELSE CASE f[i] = "#" -> ParseFlags(f, i + 1, [fl EXCEPT !.sharp = TRUE])
           [] f[i] = "0" -> ParseFlags(f, i + 1, [fl EXCEPT !.zero = TRUE])
           [] f[i] = "+" -> ParseFlags(f, i + 1, [fl EXCEPT !.plus = TRUE])
           [] f[i] = "-" -> ParseFlags(f, i + 1, [fl EXCEPT !.minus = TRUE])
           [] f[i] = " " -> ParseFlags(f, i + 1, [fl EXCEPT !.space = TRUE])
           [] OTHER -> [i |-> i, fl |-> fl]

\* the width of a directive: digits, or '*' for an operand
ParseWidth(f, i, v, n, fl, afterIndex) ==
    IF i <= Len(f) /\ f[i] = "*"
    THEN LET a == intFromArg(v, n)
         IN  [i |-> i + 1, n |-> a.n, afterIndex |-> FALSE, bad |-> FALSE,
              out |-> IF a.isInt THEN << >>
                      ELSE <<"%","!","(","B","A","D","W","I","D","T","H",")">>,
              fl |-> [fl EXCEPT !.wid = IF a.num < 0 THEN -a.num ELSE a.num,
                                !.widPresent = a.isInt,
                                !.minus = fl.minus \/ a.num < 0]]
    ELSE LET pn == parsenum(f, i, Len(f) + 1)
         IN  [i |-> pn.newi, n |-> n, afterIndex |-> afterIndex,
              bad |-> afterIndex /\ pn.isnum, out |-> << >>,
              fl |-> [fl EXCEPT !.wid = pn.num, !.widPresent = pn.isnum]]

\* the precision of a directive: '.' and digits, or '.*' for an operand
ParsePrec(f, i, v, n, fl, afterIndex) ==
    IF i <= Len(f) /\ f[i] = "."
    THEN LET an == argNumber(n, f, i + 1, Len(v))
         IN  IF an.i <= Len(f) /\ f[an.i] = "*"
             THEN LET a == intFromArg(v, an.n)
                      present == a.isInt /\ a.num >= 0
                  IN  [i |-> an.i + 1, n |-> a.n, afterIndex |-> FALSE,
                       bad |-> afterIndex \/ an.bad, reordered |-> an.reordered,
                       out |-> IF present THEN << >>
                               ELSE <<"%","!","(","B","A","D","P","R","E","C",")">>,
                       fl |-> [fl EXCEPT !.prec = IF present THEN a.num ELSE 0,
                                         !.precPresent = present]]
             ELSE LET pn == parsenum(f, an.i, Len(f) + 1)
                  IN  [i |-> pn.newi, n |-> an.n, afterIndex |-> an.found,
                       bad |-> afterIndex \/ an.bad, reordered |-> an.reordered,
                       out |-> << >>,
                       fl |-> [fl EXCEPT !.prec = pn.num, !.precPresent = TRUE]]
    ELSE [i |-> i, n |-> n, afterIndex |-> afterIndex, bad |-> FALSE,
          reordered |-> FALSE, out |-> << >>, fl |-> fl]

\* one directive, at its verb: fl holds its flags, width and precision, a the
\* operand picked, bad whether an argument index was wrong, txt the text its
\* width and precision left (BADWIDTH, BADPREC). The result is the text, the
\* place to go on from, and whether the loop of doPrintf ends here. For the
\* verbs v and w (w falls through to v, as of Go 1.20) '#' and '+' become
\* sharpV and plusV before the operand is printed.
atVerb(f, v, fl, a, bad, reordered, txt) ==
    IF a.i > Len(f)
    THEN [out |-> txt \o <<"%","!","(","N","O","V","E","R","B",")">>,
          i |-> a.i, n |-> a.n, reordered |-> reordered, stop |-> TRUE]
    ELSE [out |-> txt \o
             (IF f[a.i] = "%" THEN <<"%">>
              ELSE IF bad
              THEN <<"%","!",f[a.i],"(","B","A","D","I","N","D","E","X",")">>
              ELSE IF a.n > Len(v)
              THEN <<"%","!",f[a.i],"(","M","I","S","S","I","N","G",")">>
              ELSE IF f[a.i] \in {"v", "w"}
              THEN printArg([fl EXCEPT !.sharpV = fl.sharp, !.sharp = FALSE,
                                       !.plusV = fl.plus, !.plus = FALSE], v[a.n], f[a.i])
              ELSE printArg(fl, v[a.n], f[a.i])),
          i |-> a.i + 1,
          n |-> IF f[a.i] = "%" \/ bad \/ a.n > Len(v) THEN a.n ELSE a.n + 1,
          reordered |-> reordered, stop |-> FALSE]

\* the directive after its precision p: an argument index may stand before the verb
afterPrec(f, v, p, bad, reordered, txt) ==
    IF p.afterIndex
    THEN atVerb(f, v, p.fl, p, bad \/ p.bad, reordered \/ p.reordered, txt \o p.out)
    ELSE atVerb(f, v, p.fl, argNumber(p.n, f, p.i, Len(v)),
                bad \/ p.bad \/ argNumber(p.n, f, p.i, Len(v)).bad,
                reordered \/ p.reordered \/ argNumber(p.n, f, p.i, Len(v)).reordered,
                txt \o p.out)

\* the directive after its width w
afterWidth(f, v, w, bad, reordered) ==
    afterPrec(f, v, ParsePrec(f, w.i, v, w.n, w.fl, w.afterIndex), bad \/ w.bad,
              reordered, w.out)

\* the directive after its flags fl and the argument index a that may follow them
afterFlags(f, v, fl, a, reordered) ==
    afterWidth(f, v, ParseWidth(f, a.i, v, a.n, fl, a.found), a.bad,
               reordered \/ a.reordered)

\* the directive that starts with the '%' at i - 1: pf is what the flags loop found
directive(f, v, n, reordered, pf) ==
    afterFlags(f, v, pf.fl, argNumber(n, f, pf.i, Len(v)), reordered)

RECURSIVE doPrintf(_, _, _, _, _)
\* the loop of pp.doPrintf goes on after the step s, or ends with the check for
\* operands left over
afterStep(f, v, s) ==
    s.out \o (IF s.stop THEN Extra(v, s.n, s.reordered)
              ELSE doPrintf(f, s.i, v, s.n, s.reordered))

\* pp.doPrintf: f is the format, i the position in it, n the next operand,
\* reordered whether an argument index has been seen
doPrintf(f, i, v, n, reordered) ==
    IF i > Len(f) THEN Extra(v, n, reordered)
    ELSE IF f[i] # "%"
    THEN afterStep(f, v, [out |-> <<f[i]>>, i |-> i + 1, n |-> n,
                          reordered |-> reordered, stop |-> FALSE])
    ELSE afterStep(f, v, directive(f, v, n, reordered, ParseFlags(f, i + 1, NoFlags)))

\* fmt.Sprintf for string and int operands
Sprintf(f, v) == doPrintf(f, 1, v, 1, FALSE)

----------------------------------------------------------------------------
(* header and the call stack *)

\* header with the long path taking precedence over the short one
headerMutLongWins(b, labels, fl, level, now, file, line) ==
    LET b1 == b \o labels[level + 1] \o <<" ">>
        b2 == date(b1, now) \o <<" ">>
    IN  IF BitAnd(fl, FlagShortPath + FlagLongPath) # 0
        THEN LET f == IF BitAnd(fl, FlagLongPath) # 0 THEN file ELSE short(file)
             IN  itoa(b2 \o f \o <<":">>, line, -1) \o <<":", " ">>
        ELSE b2

\* Logger.header: buf with label, timestamp and (by the flags) location appended.
\* level is within the label array here; Format handles the index out of range.
header(b, labels, fl, level, now, file, line) ==
    LET b1 == b \o labels[level + 1] \o <<" ">>
        b2 == date(b1, now) \o <<" ">>
    IN  IF BitAnd(fl, FlagShortPath + FlagLongPath) # 0
        THEN LET f == IF BitAnd(fl, FlagShortPath) # 0 THEN short(file) ELSE file
             IN  itoa(b2 \o f \o <<":">>, line, -1) \o <<":", " ">>
        ELSE b2

\* the source file of the logger, and the lines of its calls
LogFile == <<"/","l","/","l","o","g",".","g","o">>

\* the line on which each wrapper calls Output
WrapperLine(e) ==
    CASE e = "Log" -> 167 [] e = "Logf" -> 172
      [] e = "Debug" -> 177 [] e = "Debugf" -> 182
      [] e = "Info" -> 187 [] e = "Infof" -> 192
      [] e = "Warn" -> 197 [] e = "Warnf" -> 202
      [] e = "Error" -> 207 [] e = "Errorf" -> 212

Entries == {"Output", "Log", "Logf", "Debug", "Debugf", "Info", "Infof",
            "Warn", "Warnf", "Error", "Errorf"}

\* the frames below runtime.Caller when entry point e was called with the
\* application's stack app (outermost frame first; each frame holds the place
\* it is executing)
Frames(app, e) ==
    app \o (IF e = "Output" THEN << >>
            ELSE <<[fn |-> e, file |-> LogFile, line |-> WrapperLine(e)]>>)
        \o <<[fn |-> "Output", file |-> LogFile, line |-> 150]>>

\* runtime.Caller(skip) on a stack: skip 0 is the caller of runtime.Caller;
\* rtok is whether the runtime can recover the information at all
runtimeCaller(stack, skip, rtok) ==
    IF rtok /\ Len(stack) - skip >= 1
    THEN [file |-> stack[Len(stack) - skip].file,
          line |-> stack[Len(stack) - skip].line, ok |-> TRUE]
    ELSE [file |-> << >>, line |-> 0, ok |-> FALSE]

\* lines 150-154 of Output: the depth of the lookup and the placeholder
callerLocation(stack, rtok) ==
    LET r == runtimeCaller(stack, 2, rtok)
    IN  IF r.ok THEN r ELSE [file |-> <<"?">>, line |-> 0, ok |-> FALSE]

\* the severity an entry point emits at
EntryLevel(e, l) ==
    CASE e \in {"Debug", "Debugf"} -> LevelDebug
      [] e \in {"Info", "Infof"} -> LevelInfo
      [] e \in {"Warn", "Warnf"} -> LevelWarn
      [] e \in {"Error", "Errorf"} -> LevelError
      [] OTHER -> l

\* the message an entry point passes to Output
EntryMsg(e, s, f, v) ==
    CASE e = "Output" -> s
      [] e \in {"Log", "Debug", "Info", "Warn", "Error"} -> Sprint(v)
      [] OTHER -> Sprintf(f, v)

\* time.Now(): the base time 2024-03-02T15:04:59 plus the clock, in the local zone
timeNow(c, off) ==
    [year |-> 2024, month |-> 3, day |-> 2, hour |-> 15,
     minute |-> 4 + ((59 + c) \div 60), second |-> (59 + c) % 60, off |-> off]

----------------------------------------------------------------------------
(* The operations *)

NoLoc == [file |-> << >>, line |-> 0, ok |-> FALSE, err |-> "none", panic |-> FALSE]
NoHist == [locks |-> 0, unlocks |-> 0, lookups |-> 0, writes |-> 0, last |-> 0,
           werr |-> "none"]
NoCall == [entry |-> "none", l |-> 0, s |-> << >>, f |-> << >>, v |-> << >>,
           now |-> timeNow(0, 0), id |-> 0, stack |-> << >>,
           site |-> [fn |-> "none", file |-> << >>, line |-> 0], rt |-> TRUE]

\* A public method is called by goroutine t: the wrapper formats its operands
\* and calls Output, whose first statement reads the clock (line 139). The
\* clock is read nowhere else, so the seconds that passed since the last
\* reading, d, are added here.
Call(t, c, d) ==
    /\ pc[t] = "idle"
    /\ Running
    /\ ncalls < MaxCalls
    /\ ncalls' = ncalls + 1
    /\ ndue' = IF EntryLevel(c.e, c.l) >= min THEN ndue + 1 ELSE ndue
    /\ clock + d <= MaxClock
    /\ clock' = clock + d
    /\ call' = [call EXCEPT ![t] =
                  [entry |-> c.e, l |-> EntryLevel(c.e, c.l),
                   s |-> EntryMsg(c.e, c.s, c.f, c.v), f |-> c.f, v |-> c.v,
                   now |-> timeNow(clock', tz), id |-> ncalls + 1,
                   stack |-> Frames(c.app, c.e), site |-> c.app[Len(c.app)],
                   rt |-> c.rt]]
    /\ loc' = [loc EXCEPT ![t] = NoLoc]
    /\ hist' = [hist EXCEPT ![t] = NoHist]
    /\ pc' = [pc EXCEPT ![t] = "lock"]
    /\ UNCHANGED <<logger, ret, tz, tried, fatal, race, harness>>

\* Lock that does not wait for the mutex
LockMutNoWait(t) ==
    /\ pc[t] = "lock"
    /\ Running
    /\ mu' = t
    /\ hist' = [hist EXCEPT ![t].locks = @ + 1]
    /\ pc' = [pc EXCEPT ![t] = "filter"]
    /\ UNCHANGED <<min, flag, pre, buf, out, call, loc, ret, env, harness>>

\* log.Lock() at line 140
Lock(t) ==
    /\ pc[t] = "lock"
    /\ Running
    /\ mu = 0
    /\ mu' = t
    /\ hist' = [hist EXCEPT ![t].locks = @ + 1]
    /\ pc' = [pc EXCEPT ![t] = "filter"]
    /\ UNCHANGED <<min, flag, pre, buf, out, call, loc, ret, env, harness>>

\* Filter with the threshold itself filtered out (<= for <)
FilterMutLe(t) ==
    /\ pc[t] = "filter"
    /\ Running
    /\ IF call[t].l <= min
       THEN /\ loc' = [loc EXCEPT ![t].err = "nil"]
            /\ pc' = [pc EXCEPT ![t] = "ret"]
            /\ UNCHANGED <<mu, hist, fatal>>
       ELSE IF BitAnd(flag, FlagShortPath + FlagLongPath) # 0
       THEN /\ IF mu = 0
               THEN fatal' = TRUE /\ UNCHANGED <<mu, hist, pc>>
               ELSE /\ mu' = 0
                    /\ hist' = [hist EXCEPT ![t].unlocks = @ + 1]
                    /\ pc' = [pc EXCEPT ![t] = "caller"]
                    /\ UNCHANGED fatal
            /\ UNCHANGED loc
       ELSE /\ pc' = [pc EXCEPT ![t] = "format"]
            /\ UNCHANGED <<mu, hist, loc, fatal>>
    /\ UNCHANGED <<min, flag, pre, buf, out, call, ret, world, harness>>

\* Filter with the reset of line 157 done before the threshold test
FilterMutResets(t) ==
    /\ pc[t] = "filter"
    /\ Running
    /\ IF call[t].l < min
       THEN /\ loc' = [loc EXCEPT ![t].err = "nil"]
            /\ pc' = [pc EXCEPT ![t] = "ret"]
            /\ UNCHANGED <<mu, hist, fatal>>
       ELSE IF BitAnd(flag, FlagShortPath + FlagLongPath) # 0
       THEN /\ IF mu = 0
               THEN fatal' = TRUE /\ UNCHANGED <<mu, hist, pc>>
               ELSE /\ mu' = 0
                    /\ hist' = [hist EXCEPT ![t].unlocks = @ + 1]
                    /\ pc' = [pc EXCEPT ![t] = "caller"]
                    /\ UNCHANGED fatal
            /\ UNCHANGED loc
       ELSE /\ pc' = [pc EXCEPT ![t] = "format"]
            /\ UNCHANGED <<mu, hist, loc, fatal>>
    /\ buf' = SubSeq(buf, 1, 0)
    /\ UNCHANGED <<min, flag, pre, out, call, ret, world, harness>>

\* Filter that releases the lock for the caller lookup whatever the flags
FilterMutAlwaysUnlocks(t) ==
    /\ pc[t] = "filter"
    /\ Running
    /\ IF call[t].l < min
       THEN /\ loc' = [loc EXCEPT ![t].err = "nil"]
            /\ pc' = [pc EXCEPT ![t] = "ret"]
            /\ UNCHANGED <<mu, hist, fatal>>
       ELSE /\ IF mu = 0
               THEN fatal' = TRUE /\ UNCHANGED <<mu, hist, pc>>
               ELSE /\ mu' = 0
                    /\ hist' = [hist EXCEPT ![t].unlocks = @ + 1]
                    /\ pc' = [pc EXCEPT ![t] = "caller"]
                    /\ UNCHANGED fatal
            /\ UNCHANGED loc
    /\ UNCHANGED <<min, flag, pre, buf, out, call, ret, world, harness>>

\* Filter that keeps the lock during the caller lookup (line 148 left out)
FilterMutKeepsLock(t) ==
    /\ pc[t] = "filter"
    /\ Running
    /\ IF call[t].l < min
       THEN /\ loc' = [loc EXCEPT ![t].err = "nil"]
            /\ pc' = [pc EXCEPT ![t] = "ret"]
       ELSE IF BitAnd(flag, FlagShortPath + FlagLongPath) # 0
       THEN /\ pc' = [pc EXCEPT ![t] = "caller"]
            /\ UNCHANGED loc
       ELSE /\ pc' = [pc EXCEPT ![t] = "format"]
            /\ UNCHANGED loc
    /\ UNCHANGED <<min, flag, pre, buf, mu, out, call, ret, hist, env, harness>>

\* lines 142-148: the threshold test, and the Unlock before the caller lookup.
\* Unlock of a mutex that is not locked is a fatal error of the runtime, which
\* ends the program.
Filter(t) ==
    /\ pc[t] = "filter"
    /\ Running
    /\ IF call[t].l < min
       THEN /\ loc' = [loc EXCEPT ![t].err = "nil"]
            /\ pc' = [pc EXCEPT ![t] = "ret"]
            /\ UNCHANGED <<mu, hist, fatal>>
       ELSE IF BitAnd(flag, FlagShortPath + FlagLongPath) # 0
       THEN /\ IF mu = 0
               THEN fatal' = TRUE /\ UNCHANGED <<mu, hist, pc>>
               ELSE /\ mu' = 0
                    /\ hist' = [hist EXCEPT ![t].unlocks = @ + 1]
                    /\ pc' = [pc EXCEPT ![t] = "caller"]
                    /\ UNCHANGED fatal
            /\ UNCHANGED loc
       ELSE /\ pc' = [pc EXCEPT ![t] = "format"]
            /\ UNCHANGED <<mu, hist, loc, fatal>>
    /\ UNCHANGED <<min, flag, pre, buf, out, call, ret, world, harness>>

\* lines 149-154: runtime.Caller(2), outside the lock
Caller(t) ==
    /\ pc[t] = "caller"
    /\ Running
    /\ LET r == callerLocation(call[t].stack, call[t].rt)
       IN  loc' = [loc EXCEPT ![t].file = r.file, ![t].line = r.line, ![t].ok = r.ok]
    /\ hist' = [hist EXCEPT ![t].lookups = @ + 1]
    /\ pc' = [pc EXCEPT ![t] = "relock"]
    /\ UNCHANGED <<logger, call, ret, env, harness>>

\* Relock that goes on without the lock (line 155 left out)
RelockMutForgets(t) ==
    /\ pc[t] = "relock"
    /\ Running
    /\ pc' = [pc EXCEPT ![t] = "format"]
    /\ UNCHANGED <<logger, call, loc, ret, hist, env, harness>>

\* log.Lock() at line 155
Relock(t) ==
    /\ pc[t] = "relock"
    /\ Running
    /\ mu = 0
    /\ mu' = t
    /\ hist' = [hist EXCEPT ![t].locks = @ + 1]
    /\ pc' = [pc EXCEPT ![t] = "format"]
    /\ UNCHANGED <<min, flag, pre, buf, out, call, loc, ret, env, harness>>

\* format without the reset of line 157
formatMutNoReset(b, labels, fl, c, file, line) ==
    header(b, labels, fl, c.l, c.now, file, line) \o c.s \o <<"\n">>

\* format that ends the record at a newline embedded in the message
formatMutCutsAtNewline(b, labels, fl, c, file, line) ==
    LET cut == { i \in 1..Len(c.s) : c.s[i] = "\n" }
        s == IF cut = {} THEN c.s
             ELSE SubSeq(c.s, 1, (CHOOSE i \in cut : \A j \in cut : i <= j) - 1)
    IN  header(SubSeq(b, 1, 0), labels, fl, c.l, c.now, file, line) \o s \o <<"\n">>

\* lines 157-160 as a function of the buffer: reset, header, message, newline
format(b, labels, fl, c, file, line) ==
    header(SubSeq(b, 1, 0), labels, fl, c.l, c.now, file, line) \o c.s \o <<"\n">>

\* lines 157-160: the record is assembled in the buffer. A level outside the
\* label array makes header panic at line 114, after the reset at line 157.
\* The lines are one step for a goroutine that holds the mutex with no other
\* goroutine between lines 157 and 161; FormatStmt takes them one by one.
Format(t) ==
    /\ pc[t] = "format"
    /\ Running
    /\ IF call[t].l \in 0..4
       THEN /\ buf' = format(buf, pre, flag, call[t], loc[t].file, loc[t].line)
            /\ pc' = [pc EXCEPT ![t] = "write"]
            /\ UNCHANGED loc
       ELSE /\ buf' = SubSeq(buf, 1, 0)
            /\ loc' = [loc EXCEPT ![t].panic = TRUE]
            /\ pc' = [pc EXCEPT ![t] = "ret"]
    /\ UNCHANGED <<min, flag, pre, mu, out, call, ret, hist, env, harness>>

\* line 161: log.out.Write(log.buf) is entered; the sink receives the buffer
WriteBegin(t) ==
    /\ pc[t] = "write"
    /\ Running
    /\ out' = Append(out, [bytes |-> buf, by |-> t, c |-> [call[t] EXCEPT !.stack = << >>], file |-> loc[t].file,
                           line |-> loc[t].line, ok |-> loc[t].ok])
    /\ hist' = [hist EXCEPT ![t].writes = @ + 1, ![t].last = Len(out) + 1]
    /\ pc' = [pc EXCEPT ![t] = "writing"]
    /\ UNCHANGED <<min, flag, pre, buf, mu, call, loc, ret, env, harness>>

\* line 161: Write returns, with or without a failure
WriteEnd(t) ==
    /\ pc[t] = "writing"
    /\ Running
    /\ \E e \in {"nil", "EIO"} :
          /\ hist' = [hist EXCEPT ![t].werr = e]
          /\ loc' = [loc EXCEPT ![t].err = e]
    /\ pc' = [pc EXCEPT ![t] = "ret"]
    /\ UNCHANGED <<logger, call, ret, env, harness>>

\* result with the sink's failure dropped
resultMutNil(e, l) ==
    [output |-> IF l.panic THEN "panic" ELSE "nil",
     entry |-> IF l.panic THEN "panic" ELSE IF e = "Output" THEN "nil" ELSE "void"]

\* what the entry point hands back to the application: Output its error, a
\* wrapper nothing; a panic unwinds through both
result(e, l) ==
    [output |-> IF l.panic THEN "panic" ELSE l.err,
     entry |-> IF l.panic THEN "panic" ELSE IF e = "Output" THEN l.err ELSE "void"]

\* Return without the deferred Unlock on the filtered path
ReturnMutLeaks(t) ==
    /\ pc[t] = "ret"
    /\ Running
    /\ IF hist[t].writes = 0 /\ ~loc[t].panic
       THEN /\ ret' = [ret EXCEPT ![t] = result(call[t].entry, loc[t])]
            /\ pc' = [pc EXCEPT ![t] = "idle"]
            /\ UNCHANGED <<mu, hist, fatal>>
       ELSE IF mu = 0
       THEN fatal' = TRUE /\ UNCHANGED <<mu, hist, ret, pc>>
       ELSE /\ mu' = 0
            /\ hist' = [hist EXCEPT ![t].unlocks = @ + 1]
            /\ ret' = [ret EXCEPT ![t] = result(call[t].entry, loc[t])]
            /\ pc' = [pc EXCEPT ![t] = "idle"]
            /\ UNCHANGED fatal
    /\ UNCHANGED <<min, flag, pre, buf, out, call, loc, world, harness>>

\* lines 141, 143, 162: Output returns (or unwinds) and the deferred Unlock
\* runs; on a mutex that is not locked it ends the program
Return(t) ==
    /\ pc[t] = "ret"
    /\ Running
    /\ IF mu = 0
       THEN fatal' = TRUE /\ UNCHANGED <<mu, hist, ret, pc>>
       ELSE /\ mu' = 0
            /\ hist' = [hist EXCEPT ![t].unlocks = @ + 1]
            /\ ret' = [ret EXCEPT ![t] = result(call[t].entry, loc[t])]
            /\ pc' = [pc EXCEPT ![t] = "idle"]
            /\ UNCHANGED fatal
    /\ UNCHANGED <<min, flag, pre, buf, out, call, loc, world, harness>>

\* Logger.Lock, promoted from the embedded sync.Mutex (line 46), called by the
\* application in goroutine t between its logging calls: it returns once the
\* mutex is free
MutexLock(t) ==
    /\ pc[t] = "idle"
    /\ Running
    /\ mu = 0
    /\ mu' = t
    /\ UNCHANGED <<min, flag, pre, buf, out, locals, env, harness>>

\* Logger.TryLock, promoted from the embedded sync.Mutex (line 46)
MutexTryLock(t) ==
    /\ pc[t] = "idle"
    /\ Running
    /\ IF mu = 0
       THEN mu' = t /\ tried' = [tried EXCEPT ![t] = "true"]
       ELSE UNCHANGED mu /\ tried' = [tried EXCEPT ![t] = "false"]
    /\ UNCHANGED <<min, flag, pre, buf, out, locals, clock, tz, ncalls, ndue, fatal, race,
                   harness>>

\* Logger.Unlock, promoted from the embedded sync.Mutex (line 46): a mutex is
\* not tied to the goroutine that locked it, so this frees it whoever holds it
MutexUnlock(t) ==
    /\ pc[t] = "idle"
    /\ Running
    /\ IF mu = 0
       THEN fatal' = TRUE /\ UNCHANGED mu
       ELSE mu' = 0 /\ UNCHANGED fatal
    /\ UNCHANGED <<min, flag, pre, buf, out, locals, world, harness>>

\* Bytes(x) and Num(i, wid): one append to log.buf, of some bytes or, by
\* itoa, of the decimal of a number
Bytes(x) == [itoa |-> FALSE, x |-> x, i |-> 0, wid |-> 0]
Num(i, wid) == [itoa |-> TRUE, x |-> << >>, i |-> i, wid |-> wid]

\* lines 94-110 of date, append by append
zoneAppends(off) ==
    IF off = 0
    THEN <<Bytes(<<"Z">>)>>
    ELSE LET zone0 == Quot(off, 60)
             zone1 == IF zone0 < 0 THEN -zone0 ELSE zone0
         IN  <<Bytes(<<IF zone0 < 0 THEN "-" ELSE "+">>), Num(Quot(zone1, 60), 2),
               Bytes(<<":">>), Num(Rem(zone1, 60), 2)>>

\* the appends of lines 158-160 in the order they run: header (114, 115), date
\* (81-110), header (118, 130-133), Output (159, 160)
Appends(labels, fl, c, file, line) ==
    <<Bytes(IF c.l \in 0..4 THEN labels[c.l + 1] ELSE << >>), Bytes(<<" ">>),
      Num(c.now.year, 4), Bytes(<<"-">>), Num(c.now.month, 2), Bytes(<<"-">>),
      Num(c.now.day, 2), Bytes(<<"T">>), Num(c.now.hour, 2), Bytes(<<":">>),
      Num(c.now.minute, 2), Bytes(<<":">>), Num(c.now.second, 2)>>
    \o zoneAppends(c.now.off)
    \o <<Bytes(<<" ">>)>>
    \o (IF BitAnd(fl, FlagShortPath + FlagLongPath) # 0
        THEN <<Bytes(IF BitAnd(fl, FlagShortPath) # 0 THEN short(file) ELSE file),
               Bytes(<<":">>), Num(line, -1), Bytes(<<":", " ">>)>>
        ELSE << >>)
    \o <<Bytes(c.s), Bytes(<<"\n">>)>>

\* the bytes one append adds
Appended(op) == IF op.itoa THEN itoa(<< >>, op.i, op.wid) ELSE op.x

\* the slice a Write was handed, after x was stored from place p + 1 of the
\* array it shares with log.buf
Overlay(bytes, p, x) ==
    [i \in 1..Len(bytes) |-> IF p < i /\ i <= p + Len(x) THEN x[i - p] ELSE bytes[i]]

\* goroutine t is between lines 157 and 161 without the exclusion of the
\* mutex: it does not hold it, or another goroutine is there too
Racing(t) ==
    \/ mu # t
    \/ \E u \in Threads \ {t} : pc[u] \in {"format", "write", "writing"}

\* lines 157-160 statement by statement, for a goroutine that is not alone
\* there (a data race on log.buf): the reset of line 157, then one append at a
\* time, so that the appends of two goroutines interleave. A Write in progress
\* was handed log.buf itself: its sink sees an append made meanwhile or not,
\* by when it reads. Every statement is one step here; the orders inside one
\* append are left to Tear. An append that moves log.buf to a new array gives
\* the same bytes; a Write in progress then sees none of the later appends.
FormatStmt(t) ==
    /\ pc[t] = "format"
    /\ Running
    /\ Racing(t) \/ stmt[t] > 0
    /\ LET overtakes == runner \notin {0, t} /\ pc[runner] = "format" /\ stmt[runner] > 0
       IN  /\ overtakes => preempts < MaxPreempt
           /\ preempts' = IF overtakes THEN preempts + 1 ELSE preempts
    /\ runner' = t
    /\ IF stmt[t] = 0
       THEN /\ buf' = SubSeq(buf, 1, 0)
            /\ stmt' = [stmt EXCEPT ![t] = 1]
            /\ UNCHANGED <<out, pc, loc>>
       ELSE IF stmt[t] = 1 /\ call[t].l \notin 0..4
       THEN /\ loc' = [loc EXCEPT ![t].panic = TRUE]
            /\ pc' = [pc EXCEPT ![t] = "ret"]
            /\ stmt' = [stmt EXCEPT ![t] = 0]
            /\ UNCHANGED <<buf, out>>
       ELSE LET ops == Appends(pre, flag, call[t], loc[t].file, loc[t].line)
                x == Appended(ops[stmt[t]])
                writers == {u \in Threads \ {t} : pc[u] = "writing"}
            IN  /\ buf' = buf \o x
                /\ \E seen \in SUBSET writers :
                      out' = [i \in DOMAIN out |->
                                IF \E u \in seen : hist[u].last = i
                                THEN [out[i] EXCEPT !.bytes = Overlay(@, Len(buf), x)]
                                ELSE out[i]]
                /\ IF stmt[t] = Len(ops)
                   THEN /\ pc' = [pc EXCEPT ![t] = "write"]
                        /\ stmt' = [stmt EXCEPT ![t] = 0]
                   ELSE /\ stmt' = [stmt EXCEPT ![t] = @ + 1]
                        /\ UNCHANGED pc
                /\ UNCHANGED loc
    /\ UNCHANGED <<min, flag, pre, mu, call, ret, hist, clock, tz, ncalls, ndue, tried,
                   fatal, torn, harness>>

\* lines 157-160 beside another goroutine between lines 157 and 161, with the
\* two inside one statement at once: an append that stores a slice header it
\* read before the other's append, a header read half old and half new, a
\* Write that sees part of an append. The values log.buf and the bytes written
\* take then are not computed: the behaviour ends here.
Tear(t) ==
    /\ pc[t] = "format"
    /\ Running
    /\ \E u \in Threads \ {t} : pc[u] \in {"format", "write", "writing"}
    /\ torn' = TRUE
    /\ UNCHANGED <<logger, locals, clock, tz, ncalls, ndue, tried, fatal, stmt, runner,
                   preempts, harness>>

\* the steps of Output after its call
Step(t) ==
    \/ Lock(t) \/ Filter(t) \/ Caller(t) \/ Relock(t) \/ Format(t)
    \/ WriteBegin(t) \/ WriteEnd(t) \/ Return(t)

----------------------------------------------------------------------------
(* Construction and inputs *)

\* New(out, minLevel, flags, pre): a nil pre selects the default labels
New(minLevel, flags, labels) ==
    [out |-> << >>, min |-> minLevel, flag |-> flags,
     pre |-> IF labels.nil THEN DefaultLevelStrings ELSE labels.set,
     buf |-> << >>]

\* the pre argument of New: nil, or a custom label set (shorter than the
\* default one)
NilLabels == [nil |-> TRUE, set |-> << >>]
CustomLevelStrings ==
    [nil |-> FALSE, set |-> << <<"d">>, <<"i">>, <<"w">>, <<"e">>, <<"x">> >>]

AllFlags == 0..(FlagLongPath + FlagShortPath)
Levels == LevelDebug..LevelError

\* messages: plain, and with an embedded newline
MsgA == <<"a">>
MsgNL == <<"b", "\n", "c">>

\* stacks of the application when it calls the logger: the runtime's root
\* frame, then the application's frames, the innermost being the call site
RootFrame == [fn |-> "goexit", file |-> <<"/","r",".","s">>, line |-> 1]
MainFrame == [fn |-> "main", file |-> <<"/","a","/","m",".","g","o">>, line |-> 42]
WorkFrame == [fn |-> "work", file |-> <<"w",".","g","o">>, line |-> 7]
TopFrame == [fn |-> "top", file |-> <<"/","t",".","g","o">>, line |-> 113]
AppStack(t) == IF t = 1 THEN <<RootFrame, MainFrame>> ELSE <<RootFrame, MainFrame, WorkFrame>>

\* a call: entry point, severity, message or format and operands, the
\* application's stack, and whether the runtime can resolve callers in it
OutputCall(l, s, app) ==
    [e |-> "Output", l |-> l, s |-> s, f |-> << >>, v |-> << >>, app |-> app, rt |-> TRUE]
PrintCall(e, l, v, app) ==
    [e |-> e, l |-> l, s |-> << >>, f |-> << >>, v |-> v, app |-> app, rt |-> TRUE]
PrintfCall(e, l, f, v, app) ==
    [e |-> e, l |-> l, s |-> << >>, f |-> f, v |-> v, app |-> app, rt |-> TRUE]
\* the same call on a stack the runtime cannot resolve
Unresolved(c) == [c EXCEPT !.rt = FALSE]

ArgsAB == <<StrVal(<<"a">>), StrVal(<<"b">>)>>
Fmt3x == <<"%", "d", "-", "%", "s">>
Args3x == <<IntVal(3), StrVal(<<"x">>)>>

\* the calls of a goroutine of the concurrent specification: every goroutine
\* may call Output below the threshold; above it the first calls Output and
\* the others call a wrapper, each from its own call site
ConcCalls(t) ==
    { OutputCall(LevelDebug, MsgA, AppStack(t)) }
      \cup (IF t = 1 THEN { OutputCall(LevelError, MsgA, AppStack(t)) }
            ELSE { PrintCall("Info", 0, ArgsAB, AppStack(t)) })

\* the calls of the sequential specification: Output at every severity and
\* every wrapper, from several call sites, one of them on a stack that the
\* runtime cannot resolve
SeqCalls ==
    { OutputCall(l, MsgA, <<RootFrame, MainFrame>>) : l \in Levels }
      \cup { OutputCall(LevelWarn, MsgNL, <<RootFrame, MainFrame, WorkFrame>>) }
      \cup { PrintCall(e, 0, ArgsAB, <<RootFrame, MainFrame, WorkFrame>>) :
               e \in {"Debug", "Info", "Error"} }
      \cup { Unresolved(PrintCall("Warn", 0, ArgsAB, <<RootFrame, TopFrame>>)) }
      \cup { PrintfCall(e, 0, Fmt3x, Args3x, <<RootFrame, TopFrame>>) :
               e \in {"Debugf", "Infof", "Warnf", "Errorf"} }
      \cup { PrintCall("Log", LevelError, ArgsAB, <<RootFrame, MainFrame>>) }
      \cup { PrintfCall("Logf", LevelWarn, Fmt3x, Args3x, <<RootFrame, MainFrame>>) }

InitLogger(lg) ==
    /\ min = lg.min /\ flag = lg.flag /\ pre = lg.pre /\ buf = lg.buf /\ out = lg.out
    /\ mu = 0 /\ fatal = FALSE

InitLocals ==
    /\ pc = [t \in Threads |-> "idle"]
    /\ call = [t \in Threads |-> NoCall]
    /\ loc = [t \in Threads |-> NoLoc]
    /\ ret = [t \in Threads |-> [output |-> "none", entry |-> "none"]]
    /\ hist = [t \in Threads |-> NoHist]
    /\ tried = [t \in Threads |-> "none"]
    /\ stmt = [t \in Threads |-> 0] /\ runner = 0 /\ preempts = 0 /\ torn = FALSE

NoHarness == arg = [fn |-> "none"] /\ res = [done |-> FALSE, val |-> << >>]

----------------------------------------------------------------------------
(* Spec: goroutines calling the logging methods of one Logger concurrently *)

Init ==
    /\ \E fl \in AllFlags : InitLogger(New(LevelInfo, fl, NilLabels))
    /\ InitLocals
    /\ clock = 0 /\ tz = -25200 /\ ncalls = 0 /\ ndue = 0
    /\ NoHarness

Next ==
    \/ \E t \in Threads : \E c \in ConcCalls(t), d \in 0..MaxClock : Call(t, c, d)
    \/ \E t \in Threads : Step(t)

Spec == Init /\ [][Next]_vars

----------------------------------------------------------------------------
(* SpecSeq: one goroutine, every threshold, flag set, severity and entry point *)

InitSeq ==
    /\ \/ \E m \in Levels \cup {LevelError + 1}, fl \in AllFlags :
             InitLogger(New(m, fl, NilLabels))
       \/ InitLogger(New(LevelDebug, 0, CustomLevelStrings))
    /\ InitLocals
    /\ clock = 0 /\ tz = 12600 /\ ncalls = 0 /\ ndue = 0
    /\ NoHarness

NextSeq ==
    \/ \E c \in SeqCalls : Call(1, c, 0)
    \/ Step(1)

SpecSeq == InitSeq /\ [][NextSeq]_vars

----------------------------------------------------------------------------
(* SpecFair: goroutines calling one Logger under a fair scheduler and a fair
   mutex, with a sink whose Write returns *)

\* a call below the threshold and one above it, from the goroutine's call site
FairCalls(t) ==
    { OutputCall(LevelDebug, MsgA, AppStack(t)), OutputCall(LevelError, MsgA, AppStack(t)) }

InitFair ==
    /\ \E fl \in {0, FlagLongPath} : InitLogger(New(LevelInfo, fl, NilLabels))
    /\ InitLocals
    /\ clock = 0 /\ tz = 0 /\ ncalls = 0 /\ ndue = 0
    /\ NoHarness

NextFair ==
    \/ \E t \in Threads : \E c \in FairCalls(t) : Call(t, c, 0)
    \/ \E t \in Threads : Step(t)

\* a goroutine that can run does run, and the sink's Write returns (weak
\* fairness of the steps that need no lock); a goroutine waiting in Lock gets
\* the mutex if it is free again and again (strong fairness of both Lock
\* calls)
Fairness ==
    \A t \in Threads :
       /\ WF_vars(Filter(t) \/ Caller(t) \/ Format(t) \/ WriteBegin(t)
                    \/ WriteEnd(t) \/ Return(t))
       /\ SF_vars(Lock(t))
       /\ SF_vars(Relock(t))

SpecFair == InitFair /\ [][NextFair]_vars /\ Fairness

----------------------------------------------------------------------------
(* SpecMu: goroutines that, between their logging calls, also call the Lock,
   TryLock and Unlock the Logger has from its embedded sync.Mutex. The claims
   are about the logging methods and are settled under the specifications in
   which the goroutines call only those; this one shows what the three
   promoted methods add. An Unlock by the application while a call holds the
   mutex lets a second call in: the two then run lines 157-161 without
   synchronisation, which FormatStmt follows statement by statement. *)

NextMu ==
    \/ \E t \in Threads : \E c \in FairCalls(t) : Call(t, c, 0)
    \/ \E t \in Threads :
          \/ Lock(t) \/ Filter(t) \/ Caller(t) \/ Relock(t)
          \/ (~Racing(t) /\ stmt[t] = 0 /\ Format(t))
          \/ FormatStmt(t) \/ Tear(t)
          \/ WriteBegin(t) \/ WriteEnd(t) \/ Return(t)
    \/ \E t \in Threads : MutexLock(t)
    \/ \E t \in Threads : MutexTryLock(t)
    \/ \E t \in Threads : MutexUnlock(t)

SpecMu == InitFair /\ [][NextMu]_vars

\* Reachable under SpecMu and under no other specification: an Unlock by the
\* application while a call is inside Write lets a second call into Write
SecondWriteStarted ==
    \E t, u \in Threads : t # u /\ pc[t] = "writing" /\ pc[u] = "writing"

\* Reachable under SpecMu and under no other specification: after an Unlock by
\* the application the deferred Unlock of a call finds the mutex unlocked
CallEndedProgram == fatal /\ \E t \in Threads : pc[t] = "ret"

\* Reachable under SpecMu and under no other specification: a goroutine that
\* called Lock and then logs waits for itself
WaitsForItself == \E t \in Threads : pc[t] = "lock" /\ mu = t

\* Reachable under SpecMu and under no other specification: two calls built
\* their records in log.buf at once, and the sink was handed bytes that are
\* the record of neither
MixedRecordWritten ==
    \E i \in DOMAIN out :
       out[i].bytes # format(<< >>, pre, flag, out[i].c, out[i].file, out[i].line)

----------------------------------------------------------------------------
(* SpecLvl: one goroutine, thresholds and severities within and outside the
   four named ones *)

\* Level is an int: the named severities, the fifth index of the label
\* array, and the values next to both ends of the array
AnyLevels == (LevelDebug - 1)..(LevelError + 2)

\* the entry points that take the severity as an operand
LvlCalls ==
    { OutputCall(l, MsgA, <<RootFrame, MainFrame>>) : l \in AnyLevels }
      \cup { PrintCall("Log", l, ArgsAB, <<RootFrame, MainFrame>>) :
               l \in {LevelDebug - 1, LevelError + 2} }
      \cup { PrintfCall("Logf", l, Fmt3x, Args3x, <<RootFrame, MainFrame>>) :
               l \in {LevelDebug - 1, LevelError + 2} }

InitLvl ==
    /\ \/ \E m \in AnyLevels : InitLogger(New(m, 0, NilLabels))
       \/ InitLogger(New(LevelDebug - 1, FlagShortPath, NilLabels))
    /\ InitLocals
    /\ clock = 0 /\ tz = 0 /\ ncalls = 0 /\ ndue = 0
    /\ NoHarness

NextLvl ==
    \/ \E c \in LvlCalls : Call(1, c, 0)
    \/ Step(1)

SpecLvl == InitLvl /\ [][NextLvl]_vars

----------------------------------------------------------------------------
(* SpecFmt: the formatting helpers applied to inputs drawn at the start *)

RECURSIVE PathsOfLen(_)
\* the paths of a given length over a separator and two other bytes
PathsOfLen(n) ==
    IF n = 0 THEN { << >> }
    ELSE { p \o <<ch>> : p \in PathsOfLen(n - 1), ch \in {"/", "c", "."} }

Paths == UNION { PathsOfLen(n) : n \in 0..MaxPathLen }

\* zone offsets: every second of a range around zero, and whole and half hours
Offsets == (-MaxOffset..MaxOffset) \cup { h * 1800 : h \in -24..28 }

RECURSIVE OperandsOfLen(_)
\* the operand lists of a given length over two kinds of operand
OperandsOfLen(n) ==
    IF n = 0 THEN { << >> }
    ELSE { v \o <<x>> : v \in OperandsOfLen(n - 1),
                         x \in {StrVal(<<"a">>), IntVal(1), IntVal(-23)} }

Operands == UNION { OperandsOfLen(n) : n \in 0..MaxArgs }

\* the wrappers that take operands without a format
VariadicForms == {"Log", "Debug", "Info", "Warn", "Error"}

\* date-times: every year of four digits or fewer at one moment, and the
\* ends and the one-digit to two-digit steps of the other fields, in several
\* zones
ZoneSamples == {0, -25200, 12600, 50400, -43200, -30}
DateTimes ==
    { [year |-> y, month |-> 3, day |-> 2, hour |-> 15, minute |-> 4, second |-> 5,
       off |-> -25200] : y \in 0..9999 }
      \cup { [year |-> y, month |-> mo, day |-> d, hour |-> h, minute |-> mi,
              second |-> sec, off |-> o] :
                y \in {0, 7, 2024, 9999}, mo \in {1, 9, 10, 12}, d \in {1, 9, 10, 28},
                h \in {0, 9, 23}, mi \in {0, 59}, sec \in {0, 9, 59}, o \in ZoneSamples }

\* line numbers as runtime.Caller reports them (0 when it reports none)
Lines == 0..MaxLine

InitFmt ==
    /\ InitLogger(New(LevelDebug, 0, NilLabels))
    /\ InitLocals
    /\ clock = 0 /\ tz = 0 /\ ncalls = 0 /\ ndue = 0
    /\ res = [done |-> FALSE, val |-> << >>]
    /\ \/ \E p \in Paths : arg = [fn |-> "short", file |-> p]
       \/ \E o \in Offsets : arg = [fn |-> "zone", off |-> o]
       \/ \E e \in VariadicForms, v \in Operands : arg = [fn |-> "print", e |-> e, v |-> v]
       \/ \E n \in DateTimes : arg = [fn |-> "date", now |-> n]
       \/ \E i \in Lines : arg = [fn |-> "line", line |-> i]

\* the truncation of header (lines 121-128) applied to the path
ApplyShort ==
    /\ arg.fn = "short" /\ ~res.done
    /\ res' = [done |-> TRUE, val |-> short(arg.file)]
    /\ UNCHANGED <<logger, locals, env, arg>>

\* lines 94-110 of date applied to the offset
ApplyZone ==
    /\ arg.fn = "zone" /\ ~res.done
    /\ res' = [done |-> TRUE, val |-> zoneDesignator(<< >>, arg.off)]
    /\ UNCHANGED <<logger, locals, env, arg>>

\* the message a variadic wrapper builds from its operands (lines 167, 177,
\* 187, 197, 207)
ApplyPrint ==
    /\ arg.fn = "print" /\ ~res.done
    /\ res' = [done |-> TRUE, val |-> EntryMsg(arg.e, << >>, << >>, arg.v)]
    /\ UNCHANGED <<logger, locals, env, arg>>

\* Logger.date applied to the time
ApplyDate ==
    /\ arg.fn = "date" /\ ~res.done
    /\ res' = [done |-> TRUE, val |-> date(<< >>, arg.now)]
    /\ UNCHANGED <<logger, locals, env, arg>>

\* line 132 of header: the line number appended with itoa(&log.buf, line, -1)
ApplyLine ==
    /\ arg.fn = "line" /\ ~res.done
    /\ res' = [done |-> TRUE, val |-> itoa(<< >>, arg.line, -1)]
    /\ UNCHANGED <<logger, locals, env, arg>>

NextFmt == ApplyShort \/ ApplyZone \/ ApplyPrint \/ ApplyDate \/ ApplyLine

SpecFmt == InitFmt /\ [][NextFmt]_vars

----------------------------------------------------------------------------
(* What a record should look like, stated apart from header and format *)

AllIdle == \A t \in Threads : pc[t] = "idle"

\* goroutine t has finished a call
Finished(t) == pc[t] = "idle" /\ call[t].entry # "none"

LocationRequested == flag \in {FlagLongPath, FlagShortPath, FlagLongPath + FlagShortPath}

\* the location segment with path p for the write w
LocSeg(p, w) == p \o <<":">> \o Digits(w.line) \o <<":", " ">>

\* the record of the call that made write w, with location segment seg
Record(w, seg) ==
    pre[w.c.l + 1] \o <<" ">> \o date(<< >>, w.c.now) \o <<" ">> \o seg \o w.c.s \o <<"\n">>

\* the whole line of the call that made write w
LineOf(w) ==
    Record(w, IF ~LocationRequested THEN << >>
              ELSE IF flag >= FlagShortPath THEN LocSeg(short(w.file), w)
              ELSE LocSeg(w.file, w))

\* two decimal digits, zero-padded
Dec2(n) == <<ByteFromZero((n \div 10) % 10), ByteFromZero(n % 10)>>

\* the designator of an offset: Z for zero, else the sign of the offset and
\* the hours and minutes of its absolute value
Designator(off) ==
    IF off = 0 THEN <<"Z">>
    ELSE LET a == IF off < 0 THEN -off ELSE off
         IN  <<IF off < 0 THEN "-" ELSE "+">>
                \o Dec2(a \div 3600) \o <<":">> \o Dec2((a % 3600) \div 60)

\* the part of a path after its last separator; the path itself if it has none
AfterLastSlash(p) ==
    LET S == { i \in 1..Len(p) : p[i] = "/" }
    IN  IF S = {} THEN p
        ELSE SubSeq(p, (CHOOSE i \in S : \A j \in S : j <= i) + 1, Len(p))

----------------------------------------------------------------------------
(* The claims *)

\* C1: a call whose severity (one of the four) is not below the threshold
\* writes to the sink exactly once, a call below the threshold never; once
\* all calls have returned the sink has received as many writes as there were
\* calls with severity >= threshold.
C1_WritesIffNotBelowThreshold ==
    /\ \A t \in Threads :
          (call[t].entry # "none" /\ call[t].l \in Levels) =>
             /\ call[t].l < min => hist[t].writes = 0
             /\ (call[t].l >= min /\ pc[t] \in {"writing", "ret", "idle"}) =>
                   hist[t].writes = 1
             /\ hist[t].writes <= 1
    /\ AllIdle => Len(out) = ndue

\* C1 witness: after two calls, one below the threshold and one at it, the
\* sink holds one write
C1_Witness ==
    /\ AllIdle /\ ncalls >= 2 /\ Len(out) = 1 /\ ndue = 1
    /\ out[1].c.l = min

\* C2: under every interleaving of the goroutines, with or without the
\* caller-location window, each write the sink receives is the complete line
\* of exactly one call (label, timestamp, location if requested, message,
\* newline), no call writes twice, and when all calls have returned the sink
\* holds one write per unfiltered call.
C2_WholeLinesUnderInterleaving ==
    /\ \A i \in 1..Len(out) : out[i].bytes = LineOf(out[i])
    /\ \A i, j \in 1..Len(out) : i # j => out[i].c.id # out[j].c.id
    /\ AllIdle => Len(out) = ndue

\* C2 witness: with a location flag set, two goroutines have written, the
\* one that started later first (it overtook the other in the window)
C2_Witness ==
    /\ LocationRequested /\ Len(out) >= 2
    /\ out[1].by # out[2].by
    /\ out[1].c.id > out[2].c.id
    /\ AllIdle

\* C3: at most one goroutine is inside the sink's Write at any time.
C3_OneWriteInFlight == Cardinality({t \in Threads : pc[t] = "writing"}) <= 1

\* C3 witness: one goroutine is inside Write while another waits for the lock
C3_Witness ==
    \E t, u \in Threads : pc[t] = "writing" /\ pc[u] \in {"lock", "relock"}

\* C4: for an unfiltered record Output returns what the sink's Write
\* returned (the failure, or success), having called Write once; the write
\* of the call that follows a failed one carries only its own record.
C4_ReturnsSinkResult ==
    /\ \A t \in Threads :
          (Finished(t) /\ call[t].l >= min /\ call[t].l \in Levels) =>
             /\ hist[t].writes = 1
             /\ hist[t].werr \in {"nil", "EIO"}
             /\ ret[t].output = hist[t].werr
             /\ call[t].entry = "Output" => ret[t].entry = hist[t].werr
    /\ \A t \in Threads :
          (ret[t].output = "EIO" /\ hist[t].writes = 1) =>
             out[hist[t].last].bytes = LineOf(out[hist[t].last])

\* C4 witness: a write failed and Output returned the failure to the
\* application; the next call wrote another record and was told success
C4_Witness ==
    \E t \in Threads :
       /\ pc[t] = "ret" /\ hist[t].werr = "nil"
       /\ ret[t] = [output |-> "EIO", entry |-> "EIO"]
       /\ Len(out) = 2 /\ out[1].c.s # out[2].c.s

\* C5: every write is, in order, the label of the record's severity, a
\* space, the timestamp, a space, the location segment path:line: if and
\* only if a location flag is set, the message unchanged, and one newline,
\* with nothing before or after.
C5_RecordLayout ==
    \A i \in 1..Len(out) :
       LET w == out[i]
       IN  IF LocationRequested
           THEN \E p \in {w.file, short(w.file)} : w.bytes = Record(w, LocSeg(p, w))
           ELSE w.bytes = Record(w, << >>)

\* C5 witness: a record with an embedded newline in its message was written
\* with its location
C5_Witness ==
    \E i \in 1..Len(out) :
       /\ LocationRequested
       /\ out[i].c.s = MsgNL
       /\ AllIdle

\* C6: every step of a call whose severity is below the threshold leaves
\* the buffer, the sink and the Logger's configuration as they were; such a
\* call makes no caller lookup and no write, takes the lock once and releases
\* it only on return, and returns success, whatever the flags.
C6_FilteredCallHasNoEffect ==
    [][\A t \in Threads :
          (pc'[t] # pc[t] /\ call'[t].l < min) =>
             /\ buf' = buf /\ out' = out
             /\ min' = min /\ flag' = flag /\ pre' = pre
             /\ hist'[t].lookups = 0 /\ hist'[t].writes = 0
             /\ hist'[t].locks <= 1
             /\ hist'[t].unlocks = (IF pc'[t] = "idle" THEN 1 ELSE 0)
             /\ pc'[t] = "idle" => (ret'[t].output = "nil" /\ mu' = 0)]_vars

\* C6 witness: with a location flag set, a filtered call has returned and the
\* buffer still holds the previous record
C6_Witness ==
    \E t \in Threads :
       /\ Finished(t) /\ call[t].l < min /\ ret[t].output = "nil"
       /\ LocationRequested /\ buf # << >>
       /\ Len(out) >= 1 /\ out[Len(out)].c.id < call[t].id

\* C7: the zone designator is Z exactly for offset zero; for any other
\* offset it is the sign of the offset ('-' for every negative one, also
\* between -59 and -1 seconds) and the two-digit hours and minutes of its
\* absolute value.
C7_ZoneDesignatorOfEveryOffset ==
    (arg.fn = "zone" /\ res.done) => res.val = Designator(arg.off)

\* C8: with the short-path option the path written is what follows the last
\* '/' of the resolved path, wherever that '/' stands (also when it is the
\* first byte); a path without '/' is written whole.
C8_ShortPathAfterLastSlash ==
    (arg.fn = "short" /\ res.done) => res.val = AfterLastSlash(arg.file)

\* C9: with a location flag set, for every public entry point (Output called
\* directly and each wrapper) the file and line of a written record are those
\* of the frame that called that entry point.
C9_LocationIsCallSite ==
    \A i \in 1..Len(out) :
       (LocationRequested /\ out[i].ok) =>
          /\ out[i].file = out[i].c.site.file
          /\ out[i].line = out[i].c.site.line

\* C10: with neither flag set no caller lookup is made and no location
\* segment is written; with long-path alone the segment holds the full
\* resolved path; with short-path, alone or with long-path, it holds the
\* path as the short-path step truncates it.
C10_FlagCombinations ==
    /\ flag = 0 =>
          /\ \A t \in Threads : hist[t].lookups = 0
          /\ \A i \in 1..Len(out) : out[i].bytes = Record(out[i], << >>)
    /\ flag = FlagLongPath =>
          \A i \in 1..Len(out) : out[i].bytes = Record(out[i], LocSeg(out[i].file, out[i]))
    /\ flag \in {FlagShortPath, FlagShortPath + FlagLongPath} =>
          \A i \in 1..Len(out) :
             out[i].bytes = Record(out[i], LocSeg(short(out[i].file), out[i]))
    /\ flag # 0 =>
          \A t \in Threads : pc[t] \in {"relock", "format", "write", "writing"} =>
             hist[t].lookups = 1

\* C10 witness: with both flags set a record was written whose resolved path
\* has directories, so that the short and the long form differ
C10_Witness ==
    /\ flag = FlagShortPath + FlagLongPath
    /\ \E i \in 1..Len(out) :
          /\ out[i].file = MainFrame.file
          /\ short(out[i].file) = <<"m", ".", "g", "o">>
          /\ out[i].c.entry # "Output"

\* the severity each wrapper is named after; Log and Logf take it as operand
NamedSeverity(e, l) ==
    CASE e \in {"Debug", "Debugf"} -> 0
      [] e \in {"Info", "Infof"} -> 1
      [] e \in {"Warn", "Warnf"} -> 2
      [] e \in {"Error", "Errorf"} -> 3
      [] OTHER -> l

\* the stack of Output had the application called it directly from the place
\* where it called the wrapper: the wrapper's frame is absent
DirectStack(stack) == SubSeq(stack, 1, Len(stack) - 2) \o <<stack[Len(stack)]>>

\* the line Output(level, s) writes when called directly by the caller of
\* goroutine t's wrapper, from the state the wrapper was called in
DirectLine(t) ==
    LET c == call[t]
        at == callerLocation(DirectStack(c.stack), c.rt)
        seg == IF ~LocationRequested THEN << >>
               ELSE IF flag >= FlagShortPath
                    THEN short(at.file) \o <<":">> \o Digits(at.line) \o <<":", " ">>
                    ELSE at.file \o <<":">> \o Digits(at.line) \o <<":", " ">>
    IN  pre[NamedSeverity(c.entry, c.l) + 1] \o <<" ">> \o date(<< >>, c.now)
           \o <<" ">> \o seg \o c.s \o <<"\n">>

\* C11: a wrapper call leaves the sink and the Logger as the direct call
\* Output(named severity, formatted message) from the same place and state
\* leaves them: it writes if and only if the named severity is not below the
\* threshold, the line written and the buffer are those of the direct call,
\* and the wrapper returns nothing, whatever the sink's Write returned.
C11_WrapperIsOutputResultDiscarded ==
    \A t \in Threads :
       (Finished(t) /\ call[t].entry # "Output" /\ call[t].l \in Levels) =>
          /\ ret[t].entry = "void"
          /\ hist[t].writes = (IF NamedSeverity(call[t].entry, call[t].l) >= min THEN 1 ELSE 0)
          /\ hist[t].writes = 1 =>
                /\ out[hist[t].last].bytes = DirectLine(t)
                /\ buf = DirectLine(t)

RECURSIVE Joined(_, _, _)
\* the texts of the first n operands of v, one after the other; spaced says
\* whether a space separates two adjacent operands that are both not strings
Joined(v, n, spaced) ==
    IF n = 0 THEN << >>
    ELSE Joined(v, n - 1, spaced)
           \o (IF spaced /\ n > 1 /\ "string" \notin {v[n - 1].k, v[n].k}
               THEN <<" ">> ELSE << >>)
           \o FmtValue(v[n])

\* C12 as stated: the message of a variadic wrapper is the texts of its
\* operands in order with nothing between any two of them, strings or not.
C12_NoSeparatorBetweenOperands ==
    (arg.fn = "print" /\ res.done) => res.val = Joined(arg.v, Len(arg.v), FALSE)

\* C12 amended: the message of a variadic wrapper is the texts of its
\* operands in order, with one space between two adjacent operands exactly
\* when neither of the two is a string, and nothing between them otherwise.
C12_SpaceOnlyBetweenNonStrings ==
    (arg.fn = "print" /\ res.done) => res.val = Joined(arg.v, Len(arg.v), TRUE)

\* C12 witness: Info was given two integers and a string; the message has a
\* space between the integers and none before the string
C12_Witness ==
    /\ arg.fn = "print" /\ res.done /\ arg.e = "Info"
    /\ arg.v = <<IntVal(1), IntVal(-23), StrVal(<<"a">>)>>
    /\ res.val = <<"1", " ", "-", "2", "3", "a">>

\* C13: whatever the threshold and whatever the severity passed to Output,
\* Log or Logf (values outside the four named ones and negative ones
\* included), a call ends in one of two ways: success, or the failure the
\* sink's Write returned; it never ends in a panic.
C13_OnlySinkFailure ==
    \A t \in Threads :
       Finished(t) =>
          /\ ret[t].output \in {"nil", "EIO"}
          /\ ret[t].output = "EIO" => hist[t].werr = "EIO"
          /\ ret[t].entry \in {"nil", "EIO", "void"}

\* the seconds since midnight of a time (all times of a run are of one day)
SecondsOfDay(n) == n.hour * 3600 + n.minute * 60 + n.second

\* C14: the clock never going back, under every interleaving the times
\* stamped on the lines are non-decreasing in the order the lines reach the
\* sink, as they are when each call reads the clock inside the critical
\* section that formats and writes its line.
C14_TimestampsInSinkOrder ==
    \A i, j \in 1..Len(out) :
       i < j => SecondsOfDay(out[i].c.now) <= SecondsOfDay(out[j].c.now)

\* goroutine t has passed the threshold test of its call and has not yet
\* returned from the sink's Write
PastComparison(t) == pc[t] \in {"caller", "relock", "format", "write", "writing"}

\* C15 as stated: whatever the flags, from the threshold test of a record to
\* the return of its sink write the goroutine holds the lock and has not
\* released it.
C15_OneCriticalSection ==
    \A t \in Threads :
       PastComparison(t) => (mu = t /\ hist[t].unlocks = 0 /\ hist[t].locks = 1)

\* C15 amended: with no location flag, from the threshold test of a record
\* to the return of its sink write the goroutine holds the lock and has not
\* released it; with a location flag it releases the lock once after the
\* test, for the caller lookup, and from the moment it has the lock again to
\* the return of the sink write it holds it without release.
C15_OneCriticalSectionUnlessLocation ==
    \A t \in Threads :
       /\ (PastComparison(t) /\ ~LocationRequested) =>
             (mu = t /\ hist[t].unlocks = 0 /\ hist[t].locks = 1)
       /\ (PastComparison(t) /\ LocationRequested) =>
             /\ hist[t].unlocks = 1
             /\ pc[t] \in {"caller", "relock"} => (mu # t /\ hist[t].locks = 1)
             /\ pc[t] \in {"format", "write", "writing"} => (mu = t /\ hist[t].locks = 2)

\* C15 witness: with no location flag a goroutine is inside the sink's
\* Write having taken the lock once, while the other waits for the lock
C15_Witness ==
    /\ ~LocationRequested
    /\ \E t, u \in Threads :
          /\ pc[t] = "writing" /\ hist[t].locks = 1 /\ hist[t].unlocks = 0
          /\ pc[u] = "lock"

\* goroutine t is between the reset of the buffer for its record and the
\* return of the sink's Write for it
Emitting(t) == pc[t] \in {"write", "writing"} \/ (pc[t] = "ret" /\ hist[t].writes = 1)

\* C16: a step changes the buffer or the sink only if the goroutine taking
\* it holds the lock before and after; from the reset of the buffer to the
\* return of its sink write a call holds the lock; and a call releases the
\* lock before its return at most once, for the caller lookup, at a moment
\* when it has neither reset the buffer nor written.
C16_BufferAndSinkUnderLock ==
    [][/\ (buf' # buf \/ out' # out) =>
             \E t \in Threads : pc'[t] # pc[t] /\ mu = t /\ mu' = t
       /\ \A t \in Threads :
             /\ pc[t] = "format" => mu = t
             /\ Emitting(t) => (mu = t /\ hist[t].locks = hist[t].unlocks + 1)
             /\ (hist'[t].unlocks > hist[t].unlocks /\ pc'[t] # "idle") =>
                   /\ pc'[t] = "caller" /\ hist[t].unlocks = 0
                   /\ hist[t].writes = 0
             /\ pc[t] \in {"caller", "relock"} => (mu # t /\ hist[t].writes = 0)]_vars

\* C16 witness: with a location flag set a goroutine is inside the sink's
\* Write, holding the lock it took again after the window, while the other
\* goroutine is in its own window
C16_Witness ==
    /\ LocationRequested
    /\ \E t, u \in Threads :
          /\ pc[t] = "writing" /\ mu = t
          /\ hist[t].locks = 2 /\ hist[t].unlocks = 1
          /\ pc[u] \in {"caller", "relock"}

\* four decimal digits, zero-padded
Dec4(n) == Dec2(n \div 100) \o Dec2(n % 100)

\* C17: for a year in 0..9999 and the other fields in their ranges, the
\* timestamp begins with the 19 bytes YYYY-MM-DDTHH:MM:SS, every field the
\* zero-padded decimal of its value; a zone designator other than Z holds,
\* after its sign, two digits of hours, a colon and two digits of minutes of
\* the absolute offset; a line number is written as its plain decimal, one
\* '0' for line 0, without padding.
C17_FixedWidthFields ==
    /\ (arg.fn = "date" /\ res.done /\ arg.now.year \in 0..9999) =>
          LET n == arg.now
              a == IF n.off < 0 THEN -n.off ELSE n.off
          IN  /\ Len(res.val) = (IF n.off = 0 THEN 20 ELSE 25)
              /\ SubSeq(res.val, 1, 19) =
                    Dec4(n.year) \o <<"-">> \o Dec2(n.month) \o <<"-">> \o Dec2(n.day)
                      \o <<"T">> \o Dec2(n.hour) \o <<":">> \o Dec2(n.minute)
                      \o <<":">> \o Dec2(n.second)
              /\ n.off # 0 =>
                    SubSeq(res.val, 21, 25) =
                      Dec2(a \div 3600) \o <<":">> \o Dec2((a % 3600) \div 60)
    /\ (arg.fn = "line" /\ res.done) =>
          /\ res.val = Digits(arg.line)
          /\ arg.line = 0 => res.val = <<"0">>
          /\ arg.line > 0 => res.val[1] # "0"

\* C17 witness: the first day of year 7 at 09:00:09, three and a half hours
\* east of Greenwich, rendered with every field padded
C17_Witness ==
    /\ arg.fn = "date" /\ res.done
    /\ arg.now = [year |-> 7, month |-> 1, day |-> 1, hour |-> 9, minute |-> 0,
                  second |-> 9, off |-> 12600]
    /\ res.val = <<"0","0","0","7","-","0","1","-","0","1","T","0","9",":","0","0",
                   ":","0","9","+","0","3",":","3","0">>

\* C18: on every path of Output a goroutine releases the lock only when it
\* holds it and has taken it once more than it has released it (so never
\* twice in a row), takes it only when it is free, holds it exactly when its
\* takes exceed its releases, and when no call is in progress the lock is
\* free.
C18_BalancedLocking ==
    [][/\ \A t \in Threads :
             /\ hist'[t].unlocks > hist[t].unlocks =>
                   /\ mu = t /\ mu' = 0
                   /\ hist[t].locks = hist[t].unlocks + 1
                   /\ hist'[t].unlocks = hist[t].unlocks + 1
             /\ hist'[t].locks > hist[t].locks =>
                   /\ mu = 0 /\ mu' = t
                   /\ hist[t].locks = hist[t].unlocks
             /\ (mu' = t) = (hist'[t].locks = hist'[t].unlocks + 1)
             /\ hist'[t].locks \in {hist'[t].unlocks, hist'[t].unlocks + 1}
       /\ (\A t \in Threads : pc'[t] = "idle") => mu' = 0]_vars

\* C18 witness: all calls have returned and the lock is free, after one call
\* went through the window and had its write fail and another was filtered
C18_Witness ==
    /\ AllIdle /\ mu = 0
    /\ \E t, u \in Threads :
          /\ hist[t].locks = 2 /\ hist[t].unlocks = 2 /\ hist[t].werr = "EIO"
          /\ hist[u].locks = 1 /\ hist[u].unlocks = 1 /\ hist[u].writes = 0
          /\ call[u].l < min

\* C19: under a fair scheduler and mutex and a sink whose Write returns,
\* every call a goroutine has started returns, with or without the window;
\* a goroutine inside a call that cannot take a step is waiting for the
\* lock while another goroutine holds it, and whenever a call is in progress
\* some goroutine can take a step.
C19_EveryCallReturns ==
    /\ \A t \in Threads : (pc[t] # "idle") ~> (pc[t] = "idle")
    /\ [](\A t \in Threads :
             (pc[t] # "idle" /\ ~ENABLED Step(t)) =>
                /\ pc[t] \in {"lock", "relock"}
                /\ \E u \in Threads : u # t /\ mu = u /\ ENABLED Step(u))

\* C19 witness: with the location flag set, a goroutine waits to take the
\* lock again after its window while the other one holds it inside Write
C19_Witness ==
    /\ LocationRequested
    /\ \E t, u \in Threads :
          /\ pc[t] = "relock" /\ ~ENABLED Step(t)
          /\ pc[u] = "writing" /\ mu = u

====
